---- MODULE Spec2Model ----
(***************************************************************************)
(* The files middleware of superstatic (lib/middleware/files.js): given a  *)
(* request, a configuration (trailingSlash, cleanUrls) and a content       *)
(* provider, it serves a file, redirects to a canonical URL, calls next()  *)
(* or reports a provider error.                                            *)
(*                                                                         *)
(* A string is a sequence of tokens: "/", "?", ".html", "index" and plain  *)
(* names.  Every suffix the code tests or removes ("/", ".html", "/index", *)
(* "/index.html") is a whole number of tokens, so the string operations    *)
(* of the code are the same operations on token sequences.                 *)
(***************************************************************************)
EXTENDS Naturals, Sequences, FiniteSets, TLC

VARIABLES
  config,     \* req.superstatic: [trailingSlash, cleanUrls]
  req,        \* [url, originalUrl] of the request being resolved
  pc,         \* "idle", then the provider call outstanding, then "done"
  queries,    \* paths handed to the provider during this resolution, in order
  answers,    \* the provider's answers to them: "found", "absent" or "fail"
  emitted,    \* what the responder was asked to do during this resolution
  found,      \* paths the provider is known to hold content for
  missing,    \* paths the provider is known to hold nothing for
  prev,       \* the previous resolution: [url, originalUrl, queries, answers, emitted]
  nreq        \* number of requests received

vars == <<config, req, pc, queries, answers, emitted, found, missing, prev, nreq>>

----------------------------------------------------------------------------
(* Bounds *)

MaxLen == 5          \* longest request path, in tokens
MaxRequests == 2     \* requests received in one behaviour

PathTokens == {"/", "a", "index", ".html"}
Searches == {<<>>, <<"?", "q">>}
BasePaths == {<<"/", "b">>}

RequestPaths ==
  {p \in UNION {[1..n -> PathTokens] : n \in 1..MaxLen} : p[1] = "/"}

TrailingSlashValues == {"undefined", "false", "true"}

----------------------------------------------------------------------------
(* lodash and pathutils *)

endsWith(s, suffix) ==
  /\ Len(suffix) <= Len(s)
  /\ SubSeq(s, Len(s) - Len(suffix) + 1, Len(s)) = suffix

removeTrailingString(s, rm) ==
  IF endsWith(s, rm) THEN SubSeq(s, 1, Len(s) - Len(rm)) ELSE s

hasTrailingSlash(p) == endsWith(p, <<"/">>)

addTrailingSlash(p) == IF hasTrailingSlash(p) THEN p ELSE p \o <<"/">>

removeTrailingSlash(p) == IF hasTrailingSlash(p) THEN SubSeq(p, 1, Len(p) - 1) ELSE p

asDirectoryIndex(p) == p \o <<"index", ".html">>

RECURSIVE normalizeMultiSlashes(_)
normalizeMultiSlashes(p) ==
  IF Len(p) < 2 THEN p
  ELSE IF p[1] = "/" /\ p[2] = "/" THEN normalizeMultiSlashes(Tail(p))
  ELSE <<p[1]>> \o normalizeMultiSlashes(Tail(p))

----------------------------------------------------------------------------
(* url.parse: the pathname is what precedes the first "?", the search is   *)
(* the rest, "?" included.                                                 *)

QueryAt(u) == {i \in 1..Len(u) : u[i] = "?"}

FirstQuery(u) == CHOOSE i \in QueryAt(u) : \A j \in QueryAt(u) : i <= j

UrlParse(u) ==
  IF QueryAt(u) = {} THEN [pathname |-> u, search |-> <<>>]
  ELSE [pathname |-> SubSeq(u, 1, FirstQuery(u) - 1),
        search   |-> SubSeq(u, FirstQuery(u), Len(u))]

----------------------------------------------------------------------------
(* The values the handler computes on entry *)

Pathname(r) == normalizeMultiSlashes(UrlParse(r.url).pathname)

Search(r) == UrlParse(r.url).search

\* originalPathname taken from req.url instead of req.originalUrl
OriginalPathname_FromUrl(r) == normalizeMultiSlashes(UrlParse(r.url).pathname)

OriginalPathname(r) == normalizeMultiSlashes(UrlParse(r.originalUrl).pathname)

CleanUrlRules(c) == c.cleanUrls

pathname == Pathname(req)
search == Search(req)
originalPathname == OriginalPathname(req)
cleanUrlRules == CleanUrlRules(config)
trailingSlashBehavior == config.trailingSlash

----------------------------------------------------------------------------
(* Decisions.  A decision is what the responder is asked to do, or the next *)
(* provider call.                                                          *)

NoPath == <<>>
Null == <<>>
Descriptor(p) == <<"content", p>>

Redirect(location) ==
  [kind |-> "Redirect", location |-> location, file |-> NoPath, descriptor |-> Null]
ServeFile(file, result) ==
  [kind |-> "ServeFile", location |-> NoPath, file |-> file, descriptor |-> result]
Defer == [kind |-> "Defer", location |-> NoPath, file |-> NoPath, descriptor |-> Null]
Error == [kind |-> "Error", location |-> NoPath, file |-> NoPath, descriptor |-> Null]
Provider(path) ==
  [kind |-> "Provider", location |-> NoPath, file |-> path, descriptor |-> Null]

normalizeRedirectPath(path) == IF path = <<>> THEN <<"/">> ELSE path

\* ExactMatchDecision without the test for a trailing ".html"
ExactMatchDecision_AnySuffix(ts, clean, orig, path, srch, result) ==
  IF clean
  THEN LET stripped == removeTrailingString(orig, <<".html">>)
           noIndex  == IF endsWith(stripped, <<"/", "index">>)
                       THEN removeTrailingString(stripped, <<"/", "index">>)
                       ELSE stripped
           redirPath == IF ts = "true" THEN addTrailingSlash(noIndex) ELSE noIndex
       IN Redirect(normalizeRedirectPath(redirPath \o srch))
  ELSE ServeFile(path, result)

\* ExactMatchDecision that leaves a trailing "/index" in the redirect
ExactMatchDecision_KeepIndex(ts, clean, orig, path, srch, result) ==
  IF clean /\ endsWith(orig, <<".html">>)
  THEN LET stripped == removeTrailingString(orig, <<".html">>)
           redirPath == IF ts = "true" THEN addTrailingSlash(stripped) ELSE stripped
       IN Redirect(normalizeRedirectPath(redirPath \o srch))
  ELSE ServeFile(path, result)

\* the exact file was found
ExactMatchDecision(ts, clean, orig, path, srch, result) ==
  IF clean /\ endsWith(orig, <<".html">>)
  THEN LET stripped == removeTrailingString(orig, <<".html">>)
           noIndex  == IF endsWith(stripped, <<"/", "index">>)
                       THEN removeTrailingString(stripped, <<"/", "index">>)
                       ELSE stripped
           redirPath == IF ts = "true" THEN addTrailingSlash(noIndex) ELSE noIndex
       IN Redirect(normalizeRedirectPath(redirPath \o srch))
  ELSE ServeFile(path, result)

pathAsDirectoryWithIndex(path) == asDirectoryIndex(addTrailingSlash(path))

\* DirectoryIndexDecision whose first test forgets cleanUrls
DirectoryIndexDecision_IgnoreClean(ts, clean, orig, path, srch, result) ==
  IF ts = "undefined" /\ ~hasTrailingSlash(orig)
  THEN Redirect(addTrailingSlash(orig) \o srch)
  ELSE IF ts = "false" /\ hasTrailingSlash(orig) /\ path # <<"/">>
  THEN Redirect(normalizeRedirectPath(removeTrailingSlash(orig) \o srch))
  ELSE IF ts = "true" /\ ~hasTrailingSlash(orig)
  THEN Redirect(addTrailingSlash(orig) \o srch)
  ELSE ServeFile(asDirectoryIndex(addTrailingSlash(path)), result)

\* the directory index was found
DirectoryIndexDecision(ts, clean, orig, path, srch, result) ==
  IF ts = "undefined" /\ ~hasTrailingSlash(orig) /\ ~clean
  THEN Redirect(addTrailingSlash(orig) \o srch)
  ELSE IF ts = "false" /\ hasTrailingSlash(orig) /\ path # <<"/">>
  THEN Redirect(normalizeRedirectPath(removeTrailingSlash(orig) \o srch))
  ELSE IF ts = "true" /\ ~hasTrailingSlash(orig)
  THEN Redirect(addTrailingSlash(orig) \o srch)
  ELSE ServeFile(pathAsDirectoryWithIndex(path), result)

\* appendedPath (from the pathname) and appendedOriginalPath (from the
\* original pathname): slash tells whether the ORIGINAL pathname ends in "/"
Appended(ts, slash, p) ==
  IF slash
  THEN IF ts # "undefined" THEN removeTrailingString(p, <<"/">>) \o <<".html">> ELSE p
  ELSE p \o <<".html">>

\* CleanUrlDecision whose "/index.html" redirect drops the search
CleanUrlDecision_DropSearch(ts, orig, path, srch, result) ==
  LET slash == hasTrailingSlash(orig)
      appendedPath == Appended(ts, slash, path)
      appendedOriginalPath == Appended(ts, slash, orig)
  IN IF ts = "false" /\ slash
     THEN Redirect(normalizeRedirectPath(removeTrailingSlash(orig) \o srch))
     ELSE IF ts = "true" /\ ~slash
     THEN Redirect(addTrailingSlash(
                     removeTrailingString(
                       removeTrailingString(appendedOriginalPath, <<".html">>),
                       <<"/", "index">>)) \o srch)
     ELSE IF endsWith(appendedOriginalPath, <<"/", "index", ".html">>)
     THEN Redirect(normalizeRedirectPath(
                     removeTrailingString(appendedOriginalPath,
                                          <<"/", "index", ".html">>)))
     ELSE ServeFile(appendedPath, result)

\* the clean URL candidate was found
CleanUrlDecision(ts, orig, path, srch, result) ==
  LET slash == hasTrailingSlash(orig)
      appendedPath == Appended(ts, slash, path)
      appendedOriginalPath == Appended(ts, slash, orig)
  IN IF ts = "false" /\ slash
     THEN Redirect(normalizeRedirectPath(removeTrailingSlash(orig) \o srch))
     ELSE IF ts = "true" /\ ~slash
     THEN Redirect(addTrailingSlash(
                     removeTrailingString(
                       removeTrailingString(appendedOriginalPath, <<".html">>),
                       <<"/", "index">>)) \o srch)
     ELSE IF endsWith(appendedOriginalPath, <<"/", "index", ".html">>)
     THEN Redirect(normalizeRedirectPath(
                     removeTrailingString(appendedOriginalPath,
                                          <<"/", "index", ".html">>) \o srch))
     ELSE ServeFile(appendedPath, result)

\* the continuation of the first provider call
AfterExact(result) ==
  IF result # Null
  THEN ExactMatchDecision(trailingSlashBehavior, cleanUrlRules, originalPathname,
                          pathname, search, result)
  ELSE Provider(pathAsDirectoryWithIndex(pathname))

\* AfterIndex that probes the clean URL candidate whatever cleanUrls is
AfterIndex_AlwaysProbe(result) ==
  IF result # Null
  THEN DirectoryIndexDecision(trailingSlashBehavior, cleanUrlRules, originalPathname,
                              pathname, search, result)
  ELSE Provider(Appended(trailingSlashBehavior, hasTrailingSlash(originalPathname),
                         pathname))

\* the continuation of the second provider call
AfterIndex(result) ==
  IF result # Null
  THEN DirectoryIndexDecision(trailingSlashBehavior, cleanUrlRules, originalPathname,
                              pathname, search, result)
  ELSE IF cleanUrlRules
  THEN Provider(Appended(trailingSlashBehavior, hasTrailingSlash(originalPathname),
                         pathname))
  ELSE Defer

\* the continuation of the third provider call
AfterClean(result) ==
  IF result # Null
  THEN CleanUrlDecision(trailingSlashBehavior, originalPathname, pathname, search,
                        result)
  ELSE Defer

----------------------------------------------------------------------------
(* The provider.  What it holds is fixed but learnt one path at a time: a  *)
(* path never asked for before may or may not have content, a path asked   *)
(* for again answers as it did.                                            *)

Results(path) ==
  IF path \in found THEN {Descriptor(path)}
  ELSE IF path \in missing THEN {Null}
  ELSE {Descriptor(path), Null}

Learn(path, result) ==
  /\ found' = IF result # Null THEN found \cup {path} ELSE found
  /\ missing' = IF result = Null THEN missing \cup {path} ELSE missing

\* carry out a decision: a responder call ends the resolution, a provider
\* call leaves it waiting at `at`
Act(decision, at) ==
  IF decision.kind = "Provider"
  THEN /\ queries' = Append(queries, decision.file)
       /\ pc' = at
       /\ emitted' = emitted
  ELSE /\ queries' = queries
       /\ pc' = "done"
       /\ emitted' = Append(emitted, decision)

----------------------------------------------------------------------------
(* Actions *)

NoPrev == [url |-> <<>>, originalUrl |-> <<>>, queries |-> <<>>,
           answers |-> <<>>, emitted |-> <<>>]

Current == [url |-> req.url, originalUrl |-> req.originalUrl, queries |-> queries,
            answers |-> answers, emitted |-> emitted]

Init ==
  /\ config \in [trailingSlash : TrailingSlashValues, cleanUrls : BOOLEAN]
  /\ req = [url |-> <<>>, originalUrl |-> <<>>]
  /\ pc = "idle"
  /\ queries = <<>>
  /\ answers = <<>>
  /\ emitted = <<>>
  /\ found = {}
  /\ missing = {}
  /\ prev = NoPrev
  /\ nreq = 0

\* the handler is entered: it parses the URLs and calls the provider for
\* the exact path
Start(url, originalUrl) ==
  /\ nreq < MaxRequests
  /\ nreq' = nreq + 1
  /\ req' = [url |-> url, originalUrl |-> originalUrl]
  /\ queries' = <<Pathname(req')>>
  /\ answers' = <<>>
  /\ emitted' = <<>>
  /\ pc' = "exact"
  /\ UNCHANGED <<config, found, missing>>

\* a first request, to the middleware mounted at the root
Request ==
  /\ pc = "idle"
  /\ \E p \in RequestPaths, s \in Searches : Start(p \o s, p \o s)
  /\ prev' = prev

\* the client follows the redirect it was sent
FollowRedirect ==
  /\ pc = "done"
  /\ req.url = req.originalUrl
  /\ emitted[1].kind = "Redirect"
  /\ Head(emitted[1].location) = "/"
  /\ Start(emitted[1].location, emitted[1].location)
  /\ prev' = Current

\* the same request arrives at the middleware mounted under a base path
RequestMounted ==
  /\ pc = "done"
  /\ req.url = req.originalUrl
  /\ \E b \in BasePaths : Start(req.url, b \o req.url)
  /\ prev' = Current

ExactAnswered ==
  /\ pc = "exact"
  /\ \E result \in Results(pathname) :
       /\ Learn(pathname, result)
       /\ answers' = Append(answers, IF result # Null THEN "found" ELSE "absent")
       /\ Act(AfterExact(result), "index")
  /\ UNCHANGED <<config, req, prev, nreq>>

IndexAnswered ==
  /\ pc = "index"
  /\ \E result \in Results(queries[2]) :
       /\ Learn(queries[2], result)
       /\ answers' = Append(answers, IF result # Null THEN "found" ELSE "absent")
       /\ Act(AfterIndex(result), "clean")
  /\ UNCHANGED <<config, req, prev, nreq>>

CleanAnswered ==
  /\ pc = "clean"
  /\ \E result \in Results(queries[3]) :
       /\ Learn(queries[3], result)
       /\ answers' = Append(answers, IF result # Null THEN "found" ELSE "absent")
       /\ Act(AfterClean(result), "done")
  /\ UNCHANGED <<config, req, prev, nreq>>

\* a rejection nobody catches: nothing is reported
ProviderRejected_Uncaught ==
  /\ pc \in {"exact", "index", "clean"}
  /\ answers' = Append(answers, "fail")
  /\ pc' = "done"
  /\ UNCHANGED <<config, req, queries, emitted, found, missing, prev, nreq>>

\* the outstanding provider call rejects: the catch handler runs
ProviderRejected ==
  /\ pc \in {"exact", "index", "clean"}
  /\ answers' = Append(answers, "fail")
  /\ emitted' = Append(emitted, Error)
  /\ pc' = "done"
  /\ UNCHANGED <<config, req, queries, found, missing, prev, nreq>>

Next ==
  \/ Request
  \/ FollowRedirect
  \/ RequestMounted
  \/ ExactAnswered
  \/ IndexAnswered
  \/ CleanAnswered
  \/ ProviderRejected

Spec == Init /\ [][Next]_vars

----------------------------------------------------------------------------
(* Properties *)

Slash == <<"/">>
DotHtml == <<".html">>
IndexHtml == <<"index", ".html">>

\* the query string the request came with
RequestSearch == UrlParse(req.originalUrl).search

\* the previous resolution was of an unmounted request and the current one
\* is the request a client makes when it follows the redirect it got
FollowsRedirect ==
  /\ prev.emitted # <<>>
  /\ prev.emitted[1].kind = "Redirect"
  /\ prev.url = prev.originalUrl
  /\ req.url = prev.emitted[1].location
  /\ req.originalUrl = req.url

\* C1: when resolving P yields Redirect(T), resolving T under the same
\* configuration and content does not yield a Redirect.
C1_NoDoubleRedirect ==
  (pc = "done" /\ FollowsRedirect) => emitted[1].kind # "Redirect"

ExactFound == Len(answers) >= 1 /\ answers[1] = "found"

\* C2: content at the normalized path, and cleanUrls disabled or the
\* original path not ending in ".html": the outcome is ServeFile of the
\* normalized path with that content's descriptor, and nothing else is
\* asked of the provider.
C2_ExactMatchPrecedence ==
  (ExactFound /\ (~config.cleanUrls \/ ~endsWith(originalPathname, DotHtml)))
    => /\ pc = "done"
       /\ queries = <<pathname>>
       /\ emitted = <<ServeFile(pathname, Descriptor(pathname))>>

C2_Witness ==
  /\ ExactFound
  /\ config.cleanUrls
  /\ ~endsWith(originalPathname, DotHtml)
  /\ emitted # <<>>
  /\ emitted[1].kind = "ServeFile"

IndexFound == Len(answers) >= 2 /\ answers[1] = "absent" /\ answers[2] = "found"

OriginalHasSlash == originalPathname[Len(originalPathname)] = "/"

\* normalized path + "/index.html", with one slash between them
IndexPath == IF pathname[Len(pathname)] = "/" THEN pathname \o IndexHtml
             ELSE pathname \o Slash \o IndexHtml

C3_Expected ==
  IF config.trailingSlash = "undefined" /\ ~OriginalHasSlash /\ ~config.cleanUrls
  THEN Redirect(originalPathname \o Slash \o RequestSearch)
  ELSE IF config.trailingSlash = "false" /\ OriginalHasSlash /\ pathname # Slash
  THEN Redirect(SubSeq(originalPathname, 1, Len(originalPathname) - 1) \o RequestSearch)
  ELSE IF config.trailingSlash = "true" /\ ~OriginalHasSlash
  THEN Redirect(originalPathname \o Slash \o RequestSearch)
  ELSE ServeFile(IndexPath, Descriptor(IndexPath))

\* C3: nothing at the normalized path and content at its directory index:
\* the outcome follows the trailing-slash table, read against the original
\* path.
C3_DirectoryIndexPolicy ==
  IndexFound => (pc = "done" /\ queries[2] = IndexPath /\ emitted = <<C3_Expected>>)

C3_Witness ==
  /\ IndexFound
  /\ config.trailingSlash = "undefined"
  /\ config.cleanUrls
  /\ ~OriginalHasSlash
  /\ emitted # <<>>
  /\ emitted[1].kind = "ServeFile"

C3_WitnessRedirect ==
  /\ IndexFound
  /\ config.trailingSlash = "false"
  /\ req.url # req.originalUrl
  /\ emitted # <<>>
  /\ emitted[1].kind = "Redirect"

CleanExact ==
  ExactFound /\ config.cleanUrls /\ endsWith(originalPathname, DotHtml)

\* the original path without ".html", then without a trailing "/index"
C4_Stripped ==
  LET noHtml == SubSeq(originalPathname, 1, Len(originalPathname) - 1)
  IN IF endsWith(noHtml, <<"/", "index">>)
     THEN SubSeq(noHtml, 1, Len(noHtml) - 2)
     ELSE noHtml

\* C4 as stated: the location is the stripped path, "/" appended under
\* ForcePresent, then the query string.
C4_AsStated ==
  CleanExact =>
    emitted = <<Redirect((IF config.trailingSlash = "true"
                          THEN C4_Stripped \o Slash ELSE C4_Stripped)
                         \o RequestSearch)>>

C4_Target ==
  IF config.trailingSlash = "true" /\ ~endsWith(C4_Stripped, Slash)
  THEN C4_Stripped \o Slash
  ELSE C4_Stripped

\* C4, amended: the outcome is never ServeFile; it is a Redirect to the
\* stripped path, given a trailing "/" under ForcePresent unless it has one,
\* then the query string; a location that would be empty is "/".
C4_CleanUrlCanonicalization ==
  CleanExact =>
    /\ pc = "done"
    /\ emitted = <<Redirect(IF C4_Target \o RequestSearch = <<>> THEN Slash
                            ELSE C4_Target \o RequestSearch)>>

C4_Witness ==
  /\ CleanExact
  /\ originalPathname = <<"/", "a", "/", "index", ".html">>
  /\ config.trailingSlash = "true"
  /\ emitted # <<>>
  /\ emitted[1].kind = "Redirect"

C4_WitnessEmpty ==
  /\ CleanExact
  /\ originalPathname = <<"/", "index", ".html">>
  /\ emitted = <<Redirect(Slash)>>

\* C5: a Redirect for a request with a query string ends with that query
\* string.
C5_QueryPreservation ==
  \A i \in 1..Len(emitted) :
    (emitted[i].kind = "Redirect" /\ RequestSearch # <<>>)
      => endsWith(emitted[i].location, RequestSearch)

C5_Witness ==
  /\ Len(answers) = 3
  /\ answers[3] = "found"
  /\ RequestSearch = <<"?", "q">>
  /\ emitted # <<>>
  /\ emitted[1].kind = "Redirect"
  /\ endsWith(originalPathname, <<"/", "index">>)

\* C6: the path part of a Redirect location is never empty.
C6_NoEmptyRedirectPath ==
  \A i \in 1..Len(emitted) :
    emitted[i].kind = "Redirect" => UrlParse(emitted[i].location).pathname # <<>>

Outcomes == {"ServeFile", "Redirect", "Defer", "Error"}

\* C7: a resolution ends in exactly one outcome; a failed existence query
\* is the last one, is reported once as an error and nothing else is
\* emitted; an error is reported for a failed query only.
C7_SingleOutcome ==
  /\ Len(emitted) = IF pc = "done" THEN 1 ELSE 0
  /\ \A i \in 1..Len(emitted) : emitted[i].kind \in Outcomes
  /\ \A i \in 1..Len(answers) :
       answers[i] = "fail" =>
         /\ i = Len(answers)
         /\ Len(queries) = i
         /\ pc = "done"
         /\ emitted = <<Error>>
  /\ \A i \in 1..Len(emitted) :
       emitted[i].kind = "Error" =>
         (answers # <<>> /\ answers[Len(answers)] = "fail")

C7_Witness ==
  /\ answers = <<"absent", "fail">>
  /\ Len(queries) = 2
  /\ emitted = <<Error>>
  /\ pc = "done"

Failed(a) == \E i \in 1..Len(a) : a[i] = "fail"

\* the current resolution is of the request the previous one resolved,
\* now arriving under a base path, and the provider failed in neither
Remounted ==
  /\ pc = "done"
  /\ prev.emitted # <<>>
  /\ prev.url = prev.originalUrl
  /\ req.url = prev.url
  /\ req.originalUrl # req.url
  /\ ~Failed(answers)
  /\ ~Failed(prev.answers)

Contains(s, b) ==
  \E i \in 1..Len(s) : i + Len(b) - 1 <= Len(s) /\ SubSeq(s, i, i + Len(b) - 1) = b

\* what C8 says of everything but the Redirect location
SameButLocation(b) ==
  /\ req.originalUrl = b \o req.url
  /\ emitted[1].kind = prev.emitted[1].kind
  /\ emitted[1].file = prev.emitted[1].file
  /\ emitted[1].descriptor = prev.emitted[1].descriptor
  /\ queries = prev.queries
  /\ \A i \in 1..Len(queries) : ~Contains(queries[i], b)

\* C8 as stated: the Redirect location is B followed by the location
\* emitted with no prefix.
C8_AsStated ==
  Remounted =>
    \E b \in BasePaths :
      /\ SameButLocation(b)
      /\ emitted[1].kind = "Redirect" =>
           emitted[1].location = b \o prev.emitted[1].location

\* C8, amended: as stated, except that the location is B alone where the
\* location with no prefix is the "/" that stands for an empty location.
C8_BasePathMounting ==
  Remounted =>
    \E b \in BasePaths :
      /\ SameButLocation(b)
      /\ emitted[1].kind = "Redirect" =>
           IF emitted[1].location = b
           THEN prev.emitted[1].location = Slash
           ELSE emitted[1].location = b \o prev.emitted[1].location

C8_Witness ==
  /\ Remounted
  /\ emitted[1].kind = "Redirect"
  /\ emitted[1].location = <<"/", "b", "/", "a", "/", "?", "q">>

C8_WitnessRoot ==
  /\ Remounted
  /\ emitted[1].kind = "Redirect"
  /\ emitted[1].location = <<"/", "b">>

NoDoubleSlash(p) == \A i \in 1..(Len(p) - 1) : ~(p[i] = "/" /\ p[i + 1] = "/")

\* C9: every path handed to the provider starts with "/" and has no two
\* consecutive "/"; the directory-index path ends in "/index.html".
C9_ProviderPathsWellFormed ==
  \A i \in 1..Len(queries) :
    /\ queries[i] # <<>>
    /\ queries[i][1] = "/"
    /\ NoDoubleSlash(queries[i])
    /\ i = 2 => endsWith(queries[i], Slash \o IndexHtml)

C10_Case ==
  /\ Len(answers) >= 2
  /\ answers[1] = "absent"
  /\ answers[2] = "absent"
  /\ config.cleanUrls
  /\ config.trailingSlash = "undefined"
  /\ OriginalHasSlash

\* C10: with cleanUrls, trailingSlash undefined, a trailing slash on the
\* original path and neither the exact path nor its directory index there,
\* no existence query follows the directory-index probe and the outcome is
\* Defer.
C10_NoCandidateForBareSlash ==
  C10_Case => (Len(queries) = 2 /\ pc = "done" /\ emitted = <<Defer>>)

\* C11: at most one existence query is outstanding; the exact path is asked
\* first, the directory index only after the exact path answered absent, a
\* third query only after the directory index answered absent and only with
\* cleanUrls; nothing is asked after an answer of found (or a failure), and
\* the decision is emitted only once every query issued has answered.
C11_SequentialQueries ==
  /\ Len(answers) <= Len(queries)
  /\ Len(queries) <= Len(answers) + 1
  /\ Len(queries) <= 3
  /\ pc \in {"exact", "index", "clean"} <=> Len(queries) = Len(answers) + 1
  /\ pc = "exact" => Len(queries) = 1
  /\ pc = "index" => Len(queries) = 2
  /\ pc = "clean" => Len(queries) = 3
  /\ Len(queries) >= 1 => queries[1] = pathname
  /\ Len(queries) >= 2 =>
       /\ answers[1] = "absent"
       /\ queries[2] = IndexPath
  /\ Len(queries) >= 3 =>
       /\ answers[2] = "absent"
       /\ config.cleanUrls
  /\ \A i \in 1..Len(answers) : answers[i] # "absent" => Len(queries) = i
  /\ emitted # <<>> => Len(answers) = Len(queries)

C11_Witness ==
  /\ pc = "done"
  /\ Len(queries) = 3
  /\ answers = <<"absent", "absent", "found">>
  /\ emitted # <<>>
  /\ emitted[1].kind = "ServeFile"

====
